---- MODULE Spec2Model ----
(***************************************************************************)
(* Model of app.py: the response parser parse_ai_response, the backend     *)
(* call analyze_cylinder_image and the Streamlit handler main.             *)
(*                                                                         *)
(* A Python str is modelled as a sequence of chunks.  A chunk is either    *)
(* one of the separator characters ":", "\n", " " or a run of characters   *)
(* that holds no colon and no newline and neither starts nor ends with     *)
(* whitespace ("ROD END", "fluid", ...).  The chunk sets used below are     *)
(* uniquely decodable (no chunk is a concatenation of others), so equality *)
(* of chunk sequences is equality of the strings, and `m in s` for a       *)
(* one-chunk m is membership of m in the sequence.  "" is << >>.           *)
(***************************************************************************)
EXTENDS Integers, Sequences, FiniteSets, TLC

VARIABLES
    uploaded_file,   \* TRUE iff st.file_uploader returned a file
    results_df,      \* st.session_state.results_df: Absent | None | table
    phase,           \* per-request state: Idle, Requesting, ParsedSuccess, BackendFailed
    payload_text,    \* instruction text of the last payload posted (lines)
    backend,         \* what the last requests.post did
    answer,          \* choices[0].message.content of the last 200 response
    result,          \* value returned by analyze_cylinder_image
    error_shown,     \* argument of the last st.error (<< >> when none)
    parse_invoked,   \* parse_ai_response was called for the current request
    last_parsed,     \* history: text of the last request that was parsed
    pstep,           \* position of the parser harness
    T,               \* raw response text handed to parse_ai_response
    parsed,          \* the dict returned by parse_ai_response(T)
    df,              \* the table built from parsed and parameters
    rendered,        \* the table re-serialised as KEY: value lines
    df2,             \* the table built from parsing rendered
    raised           \* an exception left the code under test

vars == <<uploaded_file, results_df, phase, payload_text, backend, answer,
          result, error_shown, parse_invoked, last_parsed,
          pstep, T, parsed, df, rendered, df2, raised>>

appVars == <<uploaded_file, results_df, phase, payload_text, backend, answer,
             result, error_shown, parse_invoked, last_parsed>>

parseVars == <<pstep, T, parsed, df, rendered, df2, raised>>

----------------------------------------------------------------------------
(* Bounds *)

MaxLen == 6          \* chunks in a raw text of the parser harness
MaxRoundLen == 5     \* chunks in a raw text of the round-trip harness
MaxInsLen == 1       \* chunks in an inserted colon-free line
MaxAnswerLen == 3    \* chunks in a backend answer of the application

----------------------------------------------------------------------------
(* Characters and strings *)

COLON == ":"
NL == "\n"
SP == " "

Whitespace == {SP, NL}

\* chunks of the raw texts of the parser harnesses: the separators, a
\* schema name in lower case (a key only through upper()) and a name that
\* is not in the schema; both names also serve as values
Alphabet == {COLON, NL, SP, "fluid", "NOTES"}

\* the strings of at most n chunks of S
SeqsUpTo(S, n) == UNION {[1..m -> S] : m \in 0..n}

\* str.upper(), chunk by chunk
UpperChunk(c) == IF c = "fluid" THEN "FLUID" ELSE c

Upper(s) == [i \in 1..Len(s) |-> UpperChunk(s[i])]

RECURSIVE LStrip(_)
LStrip(s) ==
    IF s # << >> /\ Head(s) \in Whitespace THEN LStrip(Tail(s)) ELSE s

RECURSIVE RStrip(_)
RStrip(s) ==
    IF s # << >> /\ s[Len(s)] \in Whitespace
    THEN RStrip(SubSeq(s, 1, Len(s) - 1))
    ELSE s

\* variant: rstrip() in place of strip()
StripRightOnly(s) == RStrip(s)

\* str.strip()
Strip(s) == RStrip(LStrip(s))

\* c in s, for a one-character c
Contains(s, c) == \E i \in 1..Len(s) : s[i] = c

\* s.index(c)
IndexOf(s, c) == CHOOSE i \in 1..Len(s) : s[i] = c /\ \A j \in 1..(i - 1) : s[j] # c

\* s.rindex(c)
LastIndexOf(s, c) == CHOOSE i \in 1..Len(s) : s[i] = c /\ \A j \in (i + 1)..Len(s) : s[j] # c

\* s.split(sep): every piece
RECURSIVE SplitAll(_, _)
SplitAll(s, sep) ==
    IF ~Contains(s, sep) THEN <<s>>
    ELSE <<SubSeq(s, 1, IndexOf(s, sep) - 1)>>
         \o SplitAll(SubSeq(s, IndexOf(s, sep) + 1, Len(s)), sep)

\* variant: s.rsplit(sep, 1)
SplitAtLast(s, sep) ==
    IF ~Contains(s, sep) THEN <<s>>
    ELSE <<SubSeq(s, 1, LastIndexOf(s, sep) - 1),
           SubSeq(s, LastIndexOf(s, sep) + 1, Len(s))>>

\* s.split(sep, 1): at most one split, at the first sep
Split1(s, sep) ==
    IF ~Contains(s, sep) THEN <<s>>
    ELSE <<SubSeq(s, 1, IndexOf(s, sep) - 1),
           SubSeq(s, IndexOf(s, sep) + 1, Len(s))>>

\* "\n".join(lines)
RECURSIVE Join(_)
Join(lines) ==
    IF lines = << >> THEN << >>
    ELSE IF Len(lines) = 1 THEN lines[1]
    ELSE lines[1] \o <<NL>> \o Join(Tail(lines))

----------------------------------------------------------------------------
(* parse_ai_response *)

EmptyDict == [k \in {} |-> << >>]

\* ':' in line
HasColon(line) == Contains(line, COLON)

\* `key, value = line.split(':', 1)` unpacks without ValueError
UnpackOK(line) == Len(Split1(line, COLON)) = 2

\* variant: results.setdefault(key, value)
KeepFirst(results, key, value) ==
    [k \in DOMAIN results \cup {key} |->
        IF k \in DOMAIN results THEN results[k] ELSE value]

\* results[key] = value
SetItem(results, key, value) ==
    [k \in DOMAIN results \cup {key} |-> IF k = key THEN value ELSE results[k]]

\* the body of the for loop for one line that passed the guard
ParseLine(results, line) ==
    LET parts == Split1(line, COLON)
        key == Upper(Strip(parts[1]))
        value == Strip(parts[2])
    IN  SetItem(results, key, IF value # << >> THEN value ELSE << >>)

\* variant: break at the first line without a colon
RECURSIVE StopAtColonFree(_, _, _)
StopAtColonFree(results, lines, i) ==
    IF i > Len(lines) THEN results
    ELSE IF HasColon(lines[i])
         THEN IF UnpackOK(lines[i])
              THEN StopAtColonFree(ParseLine(results, lines[i]), lines, i + 1)
              ELSE results
         ELSE results

\* the for loop, from line i on; a failed unpacking leaves the loop
RECURSIVE ParseLines(_, _, _)
ParseLines(results, lines, i) ==
    IF i > Len(lines) THEN results
    ELSE IF HasColon(lines[i])
         THEN IF UnpackOK(lines[i])
              THEN ParseLines(ParseLine(results, lines[i]), lines, i + 1)
              ELSE results
         ELSE ParseLines(results, lines, i + 1)

\* the dict returned when no exception leaves the function
parse_ai_response(response_text) ==
    ParseLines(EmptyDict, SplitAll(response_text, NL), 1)

\* parse_ai_response(response_text) raises (the unpacking of some line
\* that passed the guard fails)
ParseRaises(response_text) ==
    LET lines == SplitAll(response_text, NL)
    IN  \E i \in 1..Len(lines) : HasColon(lines[i]) /\ ~UnpackOK(lines[i])

----------------------------------------------------------------------------
(* The schema and the table *)

parameters ==
    <<"CYLINDER ACTION", "BORE DIAMETER", "OUTSIDE DIAMETER", "ROD DIAMETER",
      "STROKE LENGTH", "CLOSE LENGTH", "OPEN LENGTH", "OPERATING PRESSURE",
      "OPERATING TEMPERATURE", "MOUNTING", "ROD END", "FLUID",
      "DRAWING NUMBER">>

\* variant: parsed_results.get(k, "0")
GetOrGuess(results, k) ==
    IF <<k>> \in DOMAIN results THEN results[<<k>>] ELSE <<"0">>

\* parsed_results.get(k, "")
GetOrBlank(results, k) ==
    IF <<k>> \in DOMAIN results THEN results[<<k>>] ELSE << >>

\* variant: rows only for the parameters that were parsed
RowsOfPresentKeys(parsed_results) ==
    LET present == SelectSeq(parameters, LAMBDA k : <<k>> \in DOMAIN parsed_results)
    IN  [i \in 1..Len(present) |->
            [Parameter |-> present[i], Value |-> parsed_results[<<present[i]>>]]]

\* pd.DataFrame([{"Parameter": k, "Value": ...} for k in parameters])
BuildDataFrame(parsed_results) ==
    [i \in 1..Len(parameters) |->
        [Parameter |-> parameters[i],
         Value |-> GetOrBlank(parsed_results, parameters[i])]]

\* main, lines 143-147: the table of a response text
Normalize(text) == BuildDataFrame(parse_ai_response(text))

\* one "KEY: value" line per row, joined by newlines
Render(table) ==
    Join([i \in 1..Len(table) |->
             <<table[i].Parameter, COLON, SP>> \o table[i].Value])

----------------------------------------------------------------------------
(* analyze_cylinder_image: the instruction text and the returned string *)

\* lines 49-54 of the instruction text
RuleLines ==
    << <<"Analyze the engineering drawing and extract only the values that are clearly visible in the image.">>,
       <<"STRICT RULES", COLON>>,
       <<"1) If a value is missing or unclear, return an empty string. DO NOT estimate any values.">>,
       <<"2) Convert values to the specified units where applicable.">>,
       <<"3) Determine whether the cylinder is SINGLE-ACTION or DOUBLE-ACTION and set it under CYLINDER ACTION.">>,
       <<"4) Extract and return data in this format", COLON>> >>

\* variant: OUTSIDE DIAMETER still above BORE DIAMETER
FormatLinesOldOrder ==
    << <<"CYLINDER ACTION", COLON, SP, "[value]">>,
       <<"OUTSIDE DIAMETER", COLON, SP>>,
       <<"BORE DIAMETER", COLON, SP, "[value] MM">>,
       <<"ROD DIAMETER", COLON, SP, "[value] MM">>,
       <<"STROKE LENGTH", COLON, SP, "[value] MM">>,
       <<"CLOSE LENGTH", COLON, SP, "[value] MM">>,
       <<"OPEN LENGTH", COLON, SP>>,
       <<"OPERATING PRESSURE", COLON, SP, "[value] BAR">>,
       <<"OPERATING TEMPERATURE", COLON, SP, "[value] DEG C">>,
       <<"MOUNTING", COLON, SP>>,
       <<"ROD END", COLON, SP>>,
       <<"FLUID", COLON, SP, "[Determine and Extract]", SP>>,
       <<"DRAWING NUMBER", COLON, SP, "[Extract from Image]">> >>

\* lines 55-67 of the instruction text
FormatLines ==
    << <<"CYLINDER ACTION", COLON, SP, "[value]">>,
       <<"BORE DIAMETER", COLON, SP, "[value] MM">>,
       <<"OUTSIDE DIAMETER", COLON, SP>>,
       <<"ROD DIAMETER", COLON, SP, "[value] MM">>,
       <<"STROKE LENGTH", COLON, SP, "[value] MM">>,
       <<"CLOSE LENGTH", COLON, SP, "[value] MM">>,
       <<"OPEN LENGTH", COLON, SP>>,
       <<"OPERATING PRESSURE", COLON, SP, "[value] BAR">>,
       <<"OPERATING TEMPERATURE", COLON, SP, "[value] DEG C">>,
       <<"MOUNTING", COLON, SP>>,
       <<"ROD END", COLON, SP>>,
       <<"FLUID", COLON, SP, "[Determine and Extract]", SP>>,
       <<"DRAWING NUMBER", COLON, SP, "[Extract from Image]">> >>

\* payload["messages"][0]["content"][0]["text"]
InstructionText == Join(RuleLines \o FormatLines)

\* the literals tested at line 140; X stands for the cross mark U+274C
API_ERROR == "X API Error"
PROCESSING_ERROR == "X Processing Error"

\* f"X API Error: {response_json}"
ApiErrorText(response_json) == <<API_ERROR, COLON, SP, response_json>>

\* f"X Processing Error: {str(e)}"
ProcessingErrorText(e) == <<PROCESSING_ERROR, COLON, SP, e>>

\* bodies of the responses that are not a 200 with "choices"
ErrorBodies == {"{'error': {'code': 429}}", "{}"}

\* str(e) of the exceptions raised inside the try block
ExceptionTexts == {"Connection refused", "Expecting value", "list index out of range"}

\* chunks of the answers of the backend
AnswerAlphabet == {COLON, "FLUID", "OIL", API_ERROR, PROCESSING_ERROR}

----------------------------------------------------------------------------
(* main *)

Absent == [in_session |-> FALSE, table |-> << >>]

None == [in_session |-> TRUE, table |-> << >>]

Table(rows) == [in_session |-> TRUE, table |-> rows]

\* lines 130-131
InitSlot(slot) == IF ~slot.in_session THEN None ELSE slot

\* variant: only the first marker is tested
ChecksApiErrorOnly(r) == Contains(r, API_ERROR)

\* line 140
IsErrorResult(r) == Contains(r, API_ERROR) \/ Contains(r, PROCESSING_ERROR)

\* variant: the error branch clears the slot
SlotClearedOnError(r, slot) ==
    IF IsErrorResult(r) THEN None ELSE Table(Normalize(r))

\* lines 140-147: the slot after the if/else
SlotAfter(r, slot) ==
    IF IsErrorResult(r) THEN slot ELSE Table(Normalize(r))

\* a rerun of main with a file chosen and the button not pressed
UploadFile ==
    /\ ~uploaded_file
    /\ phase # "Requesting"
    /\ uploaded_file' = TRUE
    /\ results_df' = InitSlot(results_df)
    /\ phase' = "Idle"
    /\ error_shown' = << >>
    /\ UNCHANGED <<payload_text, backend, answer, result, parse_invoked, last_parsed>>
    /\ UNCHANGED parseVars

\* a rerun of main with no file: nothing below line 126 runs
RemoveFile ==
    /\ uploaded_file
    /\ phase # "Requesting"
    /\ uploaded_file' = FALSE
    /\ phase' = "Idle"
    /\ error_shown' = << >>
    /\ UNCHANGED <<results_df, payload_text, backend, answer, result,
                   parse_invoked, last_parsed>>
    /\ UNCHANGED parseVars

\* the button is pressed: main runs up to requests.post (lines 126-138, 38-85)
PressProcess ==
    /\ uploaded_file
    /\ phase # "Requesting"
    /\ results_df' = InitSlot(results_df)
    /\ phase' = "Requesting"
    /\ payload_text' = InstructionText
    /\ backend' = "pending"
    /\ answer' = << >>
    /\ result' = << >>
    /\ error_shown' = << >>
    /\ parse_invoked' = FALSE
    /\ UNCHANGED <<uploaded_file, last_parsed>>
    /\ UNCHANGED parseVars

\* analyze_cylinder_image returns r and main runs lines 140-148
Finish(outcome, r, content) ==
    /\ phase = "Requesting"
    /\ backend' = outcome
    /\ answer' = content
    /\ result' = r
    /\ IF IsErrorResult(r)
       THEN /\ error_shown' = r
            /\ phase' = "BackendFailed"
            /\ results_df' = SlotAfter(r, results_df)
            /\ UNCHANGED <<parse_invoked, last_parsed>>
       ELSE /\ parse_invoked' = TRUE
            /\ error_shown' = << >>
            /\ IF ParseRaises(r)
               THEN /\ phase' = "Raised"
                    /\ UNCHANGED <<results_df, last_parsed>>
               ELSE /\ phase' = "ParsedSuccess"
                    /\ results_df' = SlotAfter(r, results_df)
                    /\ last_parsed' = <<r>>
    /\ UNCHANGED <<uploaded_file, payload_text>>
    /\ UNCHANGED parseVars

\* requests.post, response.json() or the indexing at line 89 raises
RequestException ==
    \E e \in ExceptionTexts : Finish("exception", ProcessingErrorText(e), << >>)

\* the status code is not 200
ResponseNon200 ==
    \E body \in ErrorBodies : Finish("non200", ApiErrorText(body), << >>)

\* status 200, but no "choices" in the body
ResponseNoChoices ==
    \E body \in ErrorBodies : Finish("nochoices", ApiErrorText(body), << >>)

\* status 200 and choices[0].message.content is text
ResponseOK ==
    \E text \in SeqsUpTo(AnswerAlphabet, MaxAnswerLen) : Finish("ok", text, text)

----------------------------------------------------------------------------
(* The parser harnesses.  SpecParse: a raw text is drawn, parsed and        *)
(* tabulated as main does, and colon-free lines are inserted.  SpecRound:  *)
(* a raw text is drawn, parsed and tabulated, and the table is rendered    *)
(* and parsed again.                                                       *)

Texts == SeqsUpTo(Alphabet, MaxLen)

RoundTexts == SeqsUpTo(Alphabet, MaxRoundLen)

ColonFreeLines == SeqsUpTo(Alphabet \ {COLON, NL}, MaxInsLen)

InitApp ==
    /\ uploaded_file = FALSE
    /\ results_df = Absent
    /\ phase = "Idle"
    /\ payload_text = << >>
    /\ backend = "none"
    /\ answer = << >>
    /\ result = << >>
    /\ error_shown = << >>
    /\ parse_invoked = FALSE
    /\ last_parsed = << >>

InitHarness ==
    /\ pstep = "input"
    /\ parsed = EmptyDict
    /\ df = << >>
    /\ rendered = << >>
    /\ df2 = << >>
    /\ raised = FALSE

InitParse == InitApp /\ InitHarness /\ T \in Texts

InitRound == InitApp /\ InitHarness /\ T \in RoundTexts

\* main, lines 143-147, on the text T
Parse ==
    /\ pstep = "input"
    /\ IF ParseRaises(T)
       THEN /\ raised' = TRUE
            /\ pstep' = "raised"
            /\ UNCHANGED <<parsed, df>>
       ELSE /\ parsed' = parse_ai_response(T)
            /\ df' = BuildDataFrame(parsed')
            /\ pstep' = "parsed"
            /\ raised' = FALSE
    /\ UNCHANGED <<T, rendered, df2>>
    /\ UNCHANGED appVars

\* main, lines 143-147, on T with one more colon-free line
InsertColonFreeLine ==
    /\ pstep \in {"parsed", "inserted"}
    /\ \E line \in ColonFreeLines :
       \E i \in 0..Len(SplitAll(T, NL)) :
          LET lines == SplitAll(T, NL)
              text == Join(SubSeq(lines, 1, i) \o <<line>>
                           \o SubSeq(lines, i + 1, Len(lines)))
          IN  /\ Len(text) <= MaxLen
              /\ T' = text
              /\ IF ParseRaises(text)
                 THEN /\ raised' = TRUE
                      /\ pstep' = "raised"
                      /\ UNCHANGED <<parsed, df>>
                 ELSE /\ parsed' = parse_ai_response(text)
                      /\ df' = BuildDataFrame(parsed')
                      /\ pstep' = "inserted"
                      /\ raised' = FALSE
    /\ UNCHANGED <<rendered, df2>>
    /\ UNCHANGED appVars

\* the table is rendered and the rendered text goes through lines 143-147
RenderAndParse ==
    /\ pstep \in {"parsed", "inserted"}
    /\ rendered' = Render(df)
    /\ IF ParseRaises(rendered')
       THEN /\ raised' = TRUE
            /\ pstep' = "raised"
            /\ UNCHANGED df2
       ELSE /\ df2' = Normalize(rendered')
            /\ pstep' = "rendered"
            /\ raised' = FALSE
    /\ UNCHANGED <<T, parsed, df>>
    /\ UNCHANGED appVars

NextParse == Parse \/ InsertColonFreeLine

SpecParse == InitParse /\ [][NextParse]_vars

NextRound == Parse \/ RenderAndParse

SpecRound == InitRound /\ [][NextRound]_vars

----------------------------------------------------------------------------
(* Vocabulary of the properties, stated on the text itself *)

LinesOf(text) == SplitAll(text, NL)

CountOf(s, c) == Cardinality({i \in 1..Len(s) : s[i] = c})

FirstColon(line) == CHOOSE i \in 1..Len(line) :
    line[i] = COLON /\ \A j \in 1..Len(line) : line[j] = COLON => i <= j

BeforeFirstColon(line) == SubSeq(line, 1, FirstColon(line) - 1)

AfterFirstColon(line) == SubSeq(line, FirstColon(line) + 1, Len(line))

\* t is s without its leading and trailing whitespace
IsTrimOf(t, s) ==
    \E i \in 1..(Len(s) + 1) : \E j \in 0..Len(s) :
        /\ t = SubSeq(s, i, j)
        /\ \A m \in 1..Len(s) : (m < i \/ m > j) => s[m] \in Whitespace
        /\ t # << >> => (t[1] \notin Whitespace /\ t[Len(t)] \notin Whitespace)

AllWhitespace(s) == \A i \in 1..Len(s) : s[i] \in Whitespace

\* the trimmed, uppercased text before the first colon of line is k
NamesKey(line, k) ==
    /\ CountOf(line, COLON) > 0
    /\ LET b == BeforeFirstColon(line)
       IN  \E i \in 1..Len(b) :
              /\ UpperChunk(b[i]) = k
              /\ \A j \in 1..Len(b) : j # i => b[j] \in Whitespace

\* indexes of the lines of text whose canonical key is k
LinesNaming(text, k) ==
    {i \in 1..Len(LinesOf(text)) : NamesKey(LinesOf(text)[i], k)}

MaxOf(S) == CHOOSE i \in S : \A j \in S : j <= i

\* the last line of text whose canonical key is k
Governing(text, k) == LinesOf(text)[MaxOf(LinesNaming(text, k))]

Schema == {parameters[i] : i \in 1..Len(parameters)}

ParameterColumn(table) == [i \in 1..Len(table) |-> table[i].Parameter]

\* the Value of the row of table whose Parameter is k
ValueOf(table, k) ==
    (CHOOSE row \in {table[i] : i \in 1..Len(table)} : row.Parameter = k).Value

IsSubstring(v, text) ==
    \E i \in 1..(Len(text) + 1) : \E j \in 0..Len(text) : v = SubSeq(text, i, j)

Tabulated == pstep \in {"parsed", "inserted"}

----------------------------------------------------------------------------
(* Properties of the parser and of the table *)

\* C1: for every raw text (empty, without colons, with keys outside the
\* schema) the table built from parse_ai_response(T) and parameters has as
\* its Parameter column exactly the 13 schema names in schema order, and
\* building it raises nothing.
C1_ParameterColumnIsSchema ==
    /\ ~raised
    /\ pstep # "raised"
    /\ pstep # "input" =>
          /\ ParameterColumn(df) = parameters
          /\ Len(df) = 13

C1_Witness ==
    /\ pstep = "parsed"
    /\ <<"NOTES">> \in DOMAIN parsed
    /\ <<"FLUID">> \in DOMAIN parsed
    /\ ParameterColumn(df) = parameters

\* C4: when several lines have the same schema name as canonical key, the
\* table's value for that name is the trimmed value of the last such line
\* alone: it equals what that line gives when parsed on its own.
C4_LastDuplicateWins ==
    Tabulated =>
        \A k \in Schema :
            Cardinality(LinesNaming(T, k)) >= 2 =>
                /\ IsTrimOf(ValueOf(df, k), AfterFirstColon(Governing(T, k)))
                /\ ValueOf(df, k) = ValueOf(Normalize(Governing(T, k)), k)

C4_Witness ==
    /\ pstep = "parsed"
    /\ T = <<"fluid", COLON, NL, "fluid", COLON, "NOTES">>
    /\ ValueOf(df, "FLUID") = <<"NOTES">>

\* C5: a line is split at its first colon only: the value of a schema name
\* is the whole trimmed text after the first colon of its governing line,
\* and every later colon of that line is inside the value.
C5_SplitAtFirstColonOnly ==
    Tabulated =>
        \A k \in Schema :
            LinesNaming(T, k) # {} =>
                /\ IsTrimOf(ValueOf(df, k), AfterFirstColon(Governing(T, k)))
                /\ CountOf(ValueOf(df, k), COLON)
                       = CountOf(Governing(T, k), COLON) - 1

C5_Witness ==
    /\ pstep = "parsed"
    /\ T = <<"fluid", COLON, SP, "NOTES", COLON, "fluid">>
    /\ ValueOf(df, "FLUID") = <<"NOTES", COLON, "fluid">>

\* C6: a schema name that the text omits, or whose governing line has an
\* empty or whitespace-only value, has the empty string as value; every
\* schema name has a row, and every value is a piece of the text.
C6_MissingIsBlank ==
    Tabulated =>
        \A k \in Schema :
            /\ Cardinality({i \in 1..Len(df) : df[i].Parameter = k}) = 1
            /\ LinesNaming(T, k) = {} => ValueOf(df, k) = << >>
            /\ (LinesNaming(T, k) # {}
                  /\ AllWhitespace(AfterFirstColon(Governing(T, k))))
               => ValueOf(df, k) = << >>
            /\ ValueOf(df, k) # << >> => IsSubstring(ValueOf(df, k), T)

C6_Witness ==
    /\ pstep = "parsed"
    /\ T = <<"NOTES", COLON, NL, "fluid", COLON, SP>>
    /\ ValueOf(df, "FLUID") = << >>
    /\ ValueOf(df, "ROD END") = << >>

\* C7: rendering the table of a raw text as one KEY: value line per schema
\* name and putting the rendered text through the same parse and table
\* construction gives the same table again.
C7_RoundTrip ==
    /\ pstep = "rendered" => df2 = df
    /\ pstep # "raised"

C7_Witness ==
    /\ pstep = "rendered"
    /\ ValueOf(df, "FLUID") = <<"NOTES", COLON, "fluid">>
    /\ ValueOf(df, "ROD END") = << >>
    /\ df2 = df

\* u is t with one more line, and that line has no colon
IsColonFreeInsertion(t, u) ==
    LET lt == LinesOf(t)
        lu == LinesOf(u)
    IN  /\ Len(lu) = Len(lt) + 1
        /\ \E i \in 1..Len(lu) :
              /\ CountOf(lu[i], COLON) = 0
              /\ lt = SubSeq(lu, 1, i - 1) \o SubSeq(lu, i + 1, Len(lu))

\* C9: inserting a colon-free line at any position of a text (and so, step
\* after step, any number of them) leaves the table unchanged and raises
\* nothing.
C9_ColonFreeLinesSkipped ==
    [][(Tabulated /\ IsColonFreeInsertion(T, T'))
          => (df' = df /\ ~raised' /\ pstep' = "inserted")]_vars

C9_Witness ==
    /\ pstep = "inserted"
    /\ T = <<"NOTES", NL, "fluid", COLON, SP, "fluid">>
    /\ ValueOf(df, "FLUID") = <<"fluid">>

----------------------------------------------------------------------------
(* The application *)

Init == InitApp /\ InitHarness /\ T = << >>

Next ==
    \/ UploadFile
    \/ RemoveFile
    \/ PressProcess
    \/ RequestException
    \/ ResponseNon200
    \/ ResponseNoChoices
    \/ ResponseOK

Spec == Init /\ [][Next]_vars

BackendFailures == {"exception", "non200", "nochoices"}

\* C2: when the backend call fails (exception, status other than 200, no
\* "choices"), the request ends in the error branch: parse_ai_response is
\* not invoked, the error text is shown, and nothing is recorded as parsed.
C2_FailureIsNeverParsed ==
    [][(phase = "Requesting" /\ backend' \in BackendFailures)
          => /\ phase' = "BackendFailed"
             /\ ~parse_invoked'
             /\ error_shown' = result'
             /\ error_shown' # << >>
             /\ last_parsed' = last_parsed]_vars

C2_Witness ==
    /\ phase = "BackendFailed"
    /\ backend = "exception"
    /\ ~parse_invoked
    /\ error_shown = ProcessingErrorText("Connection refused")

\* C3: a request that ends in BackendFailed leaves results_df unchanged,
\* and results_df always holds the table of the most recent request that
\* was parsed, or no table when none was.
C3_FailureKeepsSlot ==
    /\ [][(phase = "Requesting" /\ phase' = "BackendFailed")
             => results_df' = results_df]_vars
    /\ [](IF last_parsed = << >>
          THEN results_df.table = << >>
          ELSE results_df = Table(Normalize(last_parsed[1])))

C3_Witness ==
    /\ phase = "BackendFailed"
    /\ last_parsed = << <<"FLUID", COLON, "OIL">> >>
    /\ ValueOf(results_df.table, "FLUID") = <<"OIL">>

\* the lines of the instruction text after the "in this format:" line
FormatSection(text) ==
    LET lines == LinesOf(text)
        h == CHOOSE i \in 1..Len(lines) :
                 lines[i] = <<"4) Extract and return data in this format", COLON>>
    IN  SubSeq(lines, h + 1, Len(lines))

\* C8: the output-format section of the instruction text sent to the
\* backend has one line per schema parameter, in the order of parameters,
\* each naming that parameter before its first colon, and no other line.
C8_PromptEnumeratesSchema ==
    payload_text # << >> =>
        LET fs == FormatSection(payload_text)
        IN  /\ Len(fs) = Len(parameters)
            /\ \A i \in 1..Len(fs) :
                  i <= Len(parameters) => NamesKey(fs[i], parameters[i])
            /\ \A i, j \in 1..Len(parameters) :
                  i # j => parameters[i] # parameters[j]

C8_Witness ==
    /\ phase = "Requesting"
    /\ payload_text = InstructionText
    /\ Len(FormatSection(payload_text)) = 13

\* C10: whenever the backend call succeeds with an answer text, the request
\* ends in ParsedSuccess: the text is parsed and results_df is the table of
\* that text.
C10_SuccessIsAlwaysParsed ==
    (backend = "ok" /\ phase \notin {"Idle", "Requesting"}) =>
        /\ phase = "ParsedSuccess"
        /\ parse_invoked
        /\ results_df = Table(Normalize(answer))

====
